---- MODULE Spec2Model ----
(***************************************************************************)
(* Model of the JD generator service (main.py, gemini_client.py): the      *)
(* prompt -> model text -> JSON extraction -> cache pipeline behind the     *)
(* /generate, /generate-test and /score-test endpoints, with the           *)
(* cache.json snapshot and process crash / restart.                        *)
(*                                                                         *)
(* Strings are sequences of one-character strings, so that find, rfind,    *)
(* slicing, f-string concatenation, json.loads and json.dump are computed  *)
(* character by character.                                                 *)
(*                                                                         *)
(* The three endpoints are async functions that never await: the event     *)
(* loop runs one handler from its first line to its response before it     *)
(* starts the next, so at most one handler is running (pc, payload, idx,   *)
(* results are its position and locals).  The only thing that can happen   *)
(* inside a handler is the death of the process; a request received        *)
(* meanwhile waits (SpecOverlap).  SpecBatch is the /generate handler on   *)
(* batches whose configs may share a channel name.                         *)
(*                                                                         *)
(* Pure functions are checked under specifications of their own: the       *)
(* extraction (SpecExtract, SpecRoundTrip), the cache key (SpecKey), the   *)
(* configuration of the client (SpecConfig), the scoring prompt            *)
(* (SpecPrompt).                                                           *)
(***************************************************************************)
EXTENDS Integers, Sequences, FiniteSets, TLC

(***************************************************************************)
(* Bounds of the model                                                     *)
(***************************************************************************)
\* longest text enumerated exhaustively for the extraction function
MaxLen == 6
\* longest text put before and after an encoded object
MaxAffix == 1
\* most channel configs in one /generate request
MaxBatch == 2
\* most questions and most answers in one /score-test request
MaxQuestions == 2

(***************************************************************************)
(* Program constants                                                       *)
(***************************************************************************)
\* text[:1000] quoted in the parse error message
RawTextLimit == 1000
\* indent=2 of json.dump
IndentWidth == 2
\* the message of an exception raised by the SDK call
UpstreamMessage == "upstream failure"

(***************************************************************************)
(* Python string helpers                                                   *)
(***************************************************************************)
Min(a, b) == IF a <= b THEN a ELSE b

\* str.find(c): 0-based index of the first occurrence of c, -1 when absent
Find(s, c) ==
    IF \E i \in 1..Len(s) : s[i] = c
    THEN (CHOOSE i \in 1..Len(s) : s[i] = c /\ \A j \in 1..(i - 1) : s[j] # c) - 1
    ELSE -1

\* str.rfind(c): 0-based index of the last occurrence of c, -1 when absent
RFind(s, c) ==
    IF \E i \in 1..Len(s) : s[i] = c
    THEN (CHOOSE i \in 1..Len(s) : s[i] = c /\ \A j \in (i + 1)..Len(s) : s[j] # c) - 1
    ELSE -1

\* s[a:b] for 0 <= a, 0 <= b: the characters at 0-based positions a .. b-1,
\* clipped to the string, empty when b <= a
Slice(s, a, b) == SubSeq(s, a + 1, Min(b, Len(s)))

(***************************************************************************)
(* JSON values and json.loads                                              *)
(*   [t |-> "obj", v |-> function from key strings to values]  (dict)      *)
(*   [t |-> "arr", v |-> sequence of values]                   (list)      *)
(*   [t |-> "str", v |-> sequence of characters]                           *)
(*   [t |-> "num", v |-> the characters of the number]                     *)
(*   [t |-> "bool", v |-> the characters of true or false]                 *)
(*   [t |-> "null", v |-> <<>>]                                            *)
(***************************************************************************)
NullVal == [t |-> "null", v |-> <<>>]
EmptyDict == [k \in {} |-> NullVal]
ObjVal(d) == [t |-> "obj", v |-> d]
StrVal(s) == [t |-> "str", v |-> s]
NumVal(s) == [t |-> "num", v |-> s]
ArrVal(s) == [t |-> "arr", v |-> s]

BoolVal(b) == [t |-> "bool", v |-> b]

WhiteSpace == {" ", "\n", "\t", "\r"}
DigitChars == {"0", "1", "2", "3", "4", "5", "6", "7", "8", "9"}
\* characters json.loads (strict) refuses unescaped inside a string
ControlChars == {"\n", "\t", "\r", "\f"}
\* the characters that may follow a backslash (\b and \uXXXX occur in no
\* text of the model)
EscapeChars == {"\"", "\\", "/", "n", "t", "r", "f"}
Unescaped(c) ==
    CASE c = "n" -> "\n" [] c = "t" -> "\t" [] c = "r" -> "\r" [] c = "f" -> "\f"
      [] OTHER -> c

ParseFail == [ok |-> FALSE, val |-> NullVal, pos |-> 0]
ParseOk(val, pos) == [ok |-> TRUE, val |-> val, pos |-> pos]

RECURSIVE SkipWs(_, _)
SkipWs(s, i) == IF i <= Len(s) /\ s[i] \in WhiteSpace THEN SkipWs(s, i + 1) ELSE i

\* the characters of a string literal from position j to its closing quote,
\* with the characters decoded so far in acc
RECURSIVE ParseChars(_, _, _)
ParseChars(s, j, acc) ==
    IF j > Len(s) THEN ParseFail
    ELSE IF s[j] = "\"" THEN ParseOk(StrVal(acc), j + 1)
    ELSE IF s[j] = "\\" THEN
             IF j + 1 <= Len(s) /\ s[j + 1] \in EscapeChars
             THEN ParseChars(s, j + 2, Append(acc, Unescaped(s[j + 1])))
             ELSE ParseFail
    ELSE IF s[j] \in ControlChars THEN ParseFail
    ELSE ParseChars(s, j + 1, Append(acc, s[j]))

\* a string literal starting at the quote at position i
ParseString(s, i) ==
    IF i > Len(s) \/ s[i] # "\"" THEN ParseFail
    ELSE ParseChars(s, i + 1, <<>>)

RECURSIVE DigitsEnd(_, _)
DigitsEnd(s, i) == IF i <= Len(s) /\ s[i] \in DigitChars THEN DigitsEnd(s, i + 1) ELSE i

\* float(...) of a fraction: trailing zeros carry no value
RECURSIVE StripZeros(_)
StripZeros(f) ==
    IF Len(f) > 1 /\ f[Len(f)] = "0" THEN StripZeros(SubSeq(f, 1, Len(f) - 1)) ELSE f

\* (0 | [1-9] digits) (. digits)?  (no text of the model has a sign or an
\* exponent); an int keeps its digits, a float its shortest literal
ParseNumber(s, i) ==
    LET e == IF i <= Len(s) /\ s[i] = "0" THEN i + 1 ELSE DigitsEnd(s, i)
        f == DigitsEnd(s, e + 1)
    IN  IF e = i THEN ParseFail
        ELSE IF e <= Len(s) /\ s[e] = "." /\ f > e + 1
             THEN ParseOk(NumVal(SubSeq(s, i, e - 1) \o <<".">>
                                   \o StripZeros(SubSeq(s, e + 1, f - 1))), f)
             ELSE ParseOk(NumVal(SubSeq(s, i, e - 1)), e)

\* null, true, false
ParseLiteral(s, i) ==
    IF Slice(s, i - 1, i + 3) = <<"n", "u", "l", "l">> THEN ParseOk(NullVal, i + 4)
    ELSE IF Slice(s, i - 1, i + 3) = <<"t", "r", "u", "e">>
         THEN ParseOk(BoolVal(<<"t", "r", "u", "e">>), i + 4)
    ELSE IF Slice(s, i - 1, i + 4) = <<"f", "a", "l", "s", "e">>
         THEN ParseOk(BoolVal(<<"f", "a", "l", "s", "e">>), i + 5)
    ELSE ParseFail

\* dict[key] = val on a dict under construction: a repeated key keeps the last value
DictPut(d, key, val) ==
    [k \in DOMAIN d \cup {key} |-> IF k = key THEN val ELSE d[k]]

RECURSIVE ParseValue(_, _), ParseMembers(_, _, _), ParseElements(_, _, _)

\* the value starting at position i (white space already skipped)
ParseValue(s, i) ==
    IF i > Len(s) THEN ParseFail
    ELSE IF s[i] = "{" THEN
             LET j == SkipWs(s, i + 1)
             IN  IF j <= Len(s) /\ s[j] = "}" THEN ParseOk(ObjVal(EmptyDict), j + 1)
                 ELSE ParseMembers(s, j, EmptyDict)
    ELSE IF s[i] = "[" THEN
             LET j == SkipWs(s, i + 1)
             IN  IF j <= Len(s) /\ s[j] = "]" THEN ParseOk(ArrVal(<<>>), j + 1)
                 ELSE ParseElements(s, j, <<>>)
    ELSE IF s[i] = "\"" THEN ParseString(s, i)
    ELSE IF s[i] \in DigitChars THEN ParseNumber(s, i)
    ELSE ParseLiteral(s, i)

\* "key" : value ( , "key" : value )* } with the members read so far in acc
ParseMembers(s, i, acc) ==
    LET key == ParseString(s, i)
    IN  IF ~key.ok THEN ParseFail
        ELSE LET c == SkipWs(s, key.pos)
             IN  IF c > Len(s) \/ s[c] # ":" THEN ParseFail
                 ELSE LET val == ParseValue(s, SkipWs(s, c + 1))
                      IN  IF ~val.ok THEN ParseFail
                          ELSE LET e == SkipWs(s, val.pos)
                                   d == DictPut(acc, key.val.v, val.val)
                               IN  IF e > Len(s) THEN ParseFail
                                   ELSE IF s[e] = "}" THEN ParseOk(ObjVal(d), e + 1)
                                   ELSE IF s[e] = "," THEN ParseMembers(s, SkipWs(s, e + 1), d)
                                   ELSE ParseFail

\* value ( , value )* ] with the elements read so far in acc
ParseElements(s, i, acc) ==
    LET val == ParseValue(s, i)
    IN  IF ~val.ok THEN ParseFail
        ELSE LET e == SkipWs(s, val.pos)
                 a == Append(acc, val.val)
             IN  IF e > Len(s) THEN ParseFail
                 ELSE IF s[e] = "]" THEN ParseOk(ArrVal(a), e + 1)
                 ELSE IF s[e] = "," THEN ParseElements(s, SkipWs(s, e + 1), a)
                 ELSE ParseFail

\* json.loads(s): one value, white space around it, nothing after it
JsonLoads(s) ==
    LET r == ParseValue(s, SkipWs(s, 1))
    IN  IF r.ok /\ SkipWs(s, r.pos) = Len(s) + 1 THEN r ELSE ParseFail


(***************************************************************************)
(* json.dump(obj, indent=2): the text written to cache.json                *)
(***************************************************************************)
RECURSIVE Spaces(_)
Spaces(n) == IF n = 0 THEN <<>> ELSE <<" ">> \o Spaces(n - 1)

\* the line break and indentation json.dump emits at nesting depth level
NewlineIndent(level) == <<"\n">> \o Spaces(IndentWidth * level)

\* the keys of a dict in the order the dump visits them
RECURSIVE KeyOrder(_)
KeyOrder(keys) ==
    IF keys = {} THEN <<>>
    ELSE LET k == CHOOSE k \in keys : TRUE IN <<k>> \o KeyOrder(keys \ {k})

\* the string encoder: quote, backslash and control characters escaped
RECURSIVE EscapeString(_)
EscapeString(v) ==
    IF v = <<>> THEN <<>>
    ELSE LET c == Head(v)
             e == CASE c = "\"" -> <<"\\", "\"">>
                    [] c = "\\" -> <<"\\", "\\">>
                    [] c = "\n" -> <<"\\", "n">>
                    [] c = "\t" -> <<"\\", "t">>
                    [] c = "\r" -> <<"\\", "r">>
                    [] c = "\f" -> <<"\\", "f">>
                    [] OTHER -> <<c>>
         IN  e \o EscapeString(Tail(v))

\* a scalar as json.dump and json.dumps write it
JsonScalar(val) ==
    IF val.t = "str" THEN <<"\"">> \o EscapeString(val.v) \o <<"\"">>
    ELSE IF val.t = "null" THEN <<"n", "u", "l", "l">>
    ELSE val.v

RECURSIVE JsonDumpVal(_, _), JsonDumpMembers(_, _, _), JsonDumpElements(_, _, _)

JsonDumpVal(val, level) ==
    IF val.t = "obj" THEN
        IF DOMAIN val.v = {} THEN <<"{", "}">>
        ELSE <<"{">> \o NewlineIndent(level + 1)
                 \o JsonDumpMembers(val.v, KeyOrder(DOMAIN val.v), level + 1)
                 \o NewlineIndent(level) \o <<"}">>
    ELSE IF val.t = "arr" THEN
        IF val.v = <<>> THEN <<"[", "]">>
        ELSE <<"[">> \o NewlineIndent(level + 1)
                 \o JsonDumpElements(val.v, 1, level + 1)
                 \o NewlineIndent(level) \o <<"]">>
    ELSE JsonScalar(val)

\* "key": value items joined by a comma and a line break
JsonDumpMembers(d, order, level) ==
    LET k == Head(order)
        item == JsonScalar(StrVal(k)) \o <<":", " ">> \o JsonDumpVal(d[k], level)
    IN  IF Len(order) = 1 THEN item
        ELSE item \o <<",">> \o NewlineIndent(level) \o JsonDumpMembers(d, Tail(order), level)

JsonDumpElements(a, i, level) ==
    LET item == JsonDumpVal(a[i], level)
    IN  IF i = Len(a) THEN item
        ELSE item \o <<",">> \o NewlineIndent(level) \o JsonDumpElements(a, i + 1, level)

JsonDump(d) == JsonDumpVal(ObjVal(d), 0)

(***************************************************************************)
(* gemini_client.py                                                        *)
(***************************************************************************)
NoJsonMessage == "No JSON object found in model output."
ParseErrorMessage == "JSON parse error"

NoError == [head |-> "", raw |-> <<>>]

\* json.loads is given the whole text (text in place of json_text)
ExtractJsonWholeText(t) ==
    LET start == Find(t, "{")
        end == RFind(t, "}")
    IN  IF start = -1 \/ end = -1
        THEN [exc |-> "GeminiError", val |-> NullVal,
              msg |-> [head |-> NoJsonMessage, raw |-> <<>>]]
        ELSE LET data == JsonLoads(t)
             IN  IF ~data.ok
                 THEN [exc |-> "GeminiError", val |-> NullVal,
                       msg |-> [head |-> ParseErrorMessage,
                                raw |-> Slice(t, 0, RawTextLimit)]]
                 ELSE [exc |-> "none", val |-> data.val, msg |-> NoError]

\* the span ends at the first "}" (find in place of rfind)
ExtractJsonFirstClose(t) ==
    LET start == Find(t, "{")
        end == Find(t, "}")
    IN  IF start = -1 \/ end = -1
        THEN [exc |-> "GeminiError", val |-> NullVal,
              msg |-> [head |-> NoJsonMessage, raw |-> <<>>]]
        ELSE LET data == JsonLoads(Slice(t, start, end + 1))
             IN  IF ~data.ok
                 THEN [exc |-> "GeminiError", val |-> NullVal,
                       msg |-> [head |-> ParseErrorMessage,
                                raw |-> Slice(t, 0, RawTextLimit)]]
                 ELSE [exc |-> "none", val |-> data.val, msg |-> NoError]

\* the no-JSON error is raised only when both braces are missing
ExtractJsonBothMissing(t) ==
    LET start == Find(t, "{")
        end == RFind(t, "}")
    IN  IF start = -1 /\ end = -1
        THEN [exc |-> "GeminiError", val |-> NullVal,
              msg |-> [head |-> NoJsonMessage, raw |-> <<>>]]
        ELSE LET data == JsonLoads(Slice(t, start, end + 1))
             IN  IF ~data.ok
                 THEN [exc |-> "GeminiError", val |-> NullVal,
                       msg |-> [head |-> ParseErrorMessage,
                                raw |-> Slice(t, 0, RawTextLimit)]]
                 ELSE [exc |-> "none", val |-> data.val, msg |-> NoError]

\* the part of generate_json after the text is received (lines 28-37):
\* the value on success, the GeminiError raised otherwise
ExtractJson(t) ==
    LET start == Find(t, "{")
        end == RFind(t, "}")
    IN  IF start = -1 \/ end = -1
        THEN [exc |-> "GeminiError", val |-> NullVal,
              msg |-> [head |-> NoJsonMessage, raw |-> <<>>]]
        ELSE LET data == JsonLoads(Slice(t, start, end + 1))
             IN  IF ~data.ok
                 THEN [exc |-> "GeminiError", val |-> NullVal,
                       msg |-> [head |-> ParseErrorMessage,
                                raw |-> Slice(t, 0, RawTextLimit)]]
                 ELSE [exc |-> "none", val |-> data.val, msg |-> NoError]

\* Optional[str]: None, or a string that may be empty
None == [some |-> FALSE, val |-> ""]
Str(v) == [some |-> TRUE, val |-> v]
\* bool(x) of an Optional[str]
Truthy(x) == x.some /\ x.val # ""
\* a or b
PyOr(a, b) == IF Truthy(a) THEN a ELSE b
\* os.environ.get(name) and os.environ.get(name, default)
EnvGet(env, name) == env[name]
EnvGetDefault(env, name, default) == IF env[name].some THEN env[name] ELSE Str(default)

ClientDefaultModel == "gemini-2.5-flash"
KeyNotSetMessage == "GEMINI_API_KEY not set"
NoClient == [api_key |-> None, model |-> None]

\* the constructor without its check of the key
GeminiClientInitUnchecked(api_key, model, env) ==
    [exc |-> "none", msg |-> "",
     client |-> [api_key |-> PyOr(api_key, EnvGet(env, "GEMINI_API_KEY")),
                 model |-> PyOr(model, EnvGetDefault(env, "GEMINI_MODEL",
                                                     ClientDefaultModel))]]

\* GeminiClient.__init__: the client object, or the GeminiError raised
GeminiClientInit(api_key, model, env) ==
    LET k == PyOr(api_key, EnvGet(env, "GEMINI_API_KEY"))
        m == PyOr(model, EnvGetDefault(env, "GEMINI_MODEL", ClientDefaultModel))
    IN  IF ~Truthy(k)
        THEN [exc |-> "GeminiError", msg |-> KeyNotSetMessage, client |-> NoClient]
        ELSE [exc |-> "none", msg |-> "", client |-> [api_key |-> k, model |-> m]]

\* generate_text: the reply of the SDK call is either an exception of the
\* SDK or transport (never a GeminiError) or a response object;
\* text = resp.text or resp.response or str(resp)
GenerateText(reply) ==
    IF reply.raises THEN [exc |-> "ApiError", text |-> <<>>]
    ELSE [exc |-> "none",
          text |-> IF reply.text # <<>> THEN reply.text
                   ELSE IF reply.response # <<>> THEN reply.response
                   ELSE reply.repr]

\* generate_json calls generate_text again when the first attempt failed
GenerateJsonRetry(reply) ==
    LET t == GenerateText(reply)
    IN  IF t.exc # "none"
        THEN [exc |-> t.exc, val |-> NullVal,
              msg |-> [head |-> UpstreamMessage, raw |-> <<>>], text |-> <<>>,
              sdk_calls |-> 2]
        ELSE LET r == ExtractJson(t.text)
             IN  [exc |-> r.exc, val |-> r.val, msg |-> r.msg, text |-> t.text,
                  sdk_calls |-> IF r.exc = "none" THEN 1 ELSE 2]

\* generate_json: one call of generate_text, which makes one SDK call; an
\* exception of generate_text propagates unchanged
GenerateJson(reply) ==
    LET t == GenerateText(reply)
    IN  IF t.exc # "none"
        THEN [exc |-> t.exc, val |-> NullVal,
              msg |-> [head |-> UpstreamMessage, raw |-> <<>>], text |-> <<>>,
              sdk_calls |-> 1]
        ELSE LET r == ExtractJson(t.text)
             IN  [exc |-> r.exc, val |-> r.val, msg |-> r.msg, text |-> t.text,
                  sdk_calls |-> 1]


(***************************************************************************)
(* main.py: requests                                                       *)
(***************************************************************************)
\* the field values requests are drawn from; "_" is the separator of the
\* cache key and may occur in any field
JobTitles == {<<"a">>, <<"a", "_", "b">>}
ChannelNames == {<<"c">>, <<"b", "_", "c">>}
Styles == {<<"s">>}
Profiles == {<<"p">>}
Languages == {<<"P", "L">>}
TestTitles == {<<"a">>}
Questions == {<<"q">>}
Answers == {<<"r">>}

\* sequences over S of length lo..hi
SeqsOf(S, lo, hi) == UNION {[1..n -> S] : n \in lo..hi}

ChannelConfig ==
    [channel : ChannelNames, style : Styles,
     candidate_profile : Profiles, language : Languages]
GenerateRequest ==
    [job_title : JobTitles, channels : SeqsOf(ChannelConfig, 0, MaxBatch)]
TestRequest == [job_title : TestTitles, candidate_profile : Profiles]
\* (lists of MaxQuestions items and of one fewer, so of equal and of
\* different lengths)
TestAnswersRequest ==
    [job_title : TestTitles, candidate_profile : Profiles,
     questions : SeqsOf(Questions, MaxQuestions - 1, MaxQuestions),
     answers : SeqsOf(Answers, MaxQuestions - 1, MaxQuestions)]

\* the replies of the generative service: an exception, or a response whose
\* text is one of these (empty: the response carries no text)
ModelTexts ==
    { <<"O", "k", " ", "{", "\"", "k", "\"", ":", "1", "}", " ", "!">>,
      <<"{", "}">>,
      <<"{", "x", "}">> }
ReprText == <<"r", "e", "p", "r">>
ClientReplies ==
    {[raises |-> TRUE, text |-> <<>>, response |-> <<>>, repr |-> <<>>]}
    \cup {[raises |-> FALSE, text |-> t, response |-> <<>>, repr |-> ReprText] :
             t \in ModelTexts \cup {<<>>}}

\* the replies to a scoring prompt: those above, and an assessment whose
\* grade is not the one the rule of the prompt gives its overall_score
OverallScoreKey == <<"o", "v", "e", "r", "a", "l", "l", "_", "s", "c", "o", "r", "e">>
GradeKey == <<"g", "r", "a", "d", "e">>
GradedText ==
    <<"{", "\"", "o", "v", "e", "r", "a", "l", "l", "_", "s", "c", "o", "r", "e", "\"", ":", " ", "4", ".", "5", ",">>
    \o <<" ", "\"", "g", "r", "a", "d", "e", "\"", ":", " ", "\"", "B", "\"", "}">>
ScoreReplies ==
    ClientReplies
    \cup {[raises |-> FALSE, text |-> GradedText, response |-> <<>>, repr |-> ReprText]}

VARIABLES
    proc,        \* "up": serving, "down": crashed, "startfail": import of main.py raised
    CACHE,       \* the module-level dict
    file,        \* cache.json: whether it exists, and its characters
    pc,          \* position of the running handler: "idle", "loop", "save", "write"
    payload,     \* the GenerateRequest being handled
    idx,         \* position of the for loop in payload.channels
    results,     \* the results dict of generate
    calls,       \* number of SDK calls made for the request handled last
    text,        \* a text received from the model (extraction checked on its own)
    outcome,     \* what the extraction made of text
    resp,        \* the response of the last finished request
    firstResult, \* history: parameter tuple -> the json the first request that
                 \* returned 200 for it had generated or looked up for it
    environ,     \* os.environ after load_dotenv(): GEMINI_API_KEY, GEMINI_MODEL
    gemini,      \* the module-level GeminiClient: its api_key and model
    waiting,     \* a /generate request received while a handler is running
    raced,       \* history: the keys the running request shares with the
                 \* request that was running when it arrived, not cached then
    overlapped,  \* history: all the keys of that request, if it returned 200
    args,        \* the arguments of a function checked on its own
    ret          \* and what it returned

vars == <<proc, CACHE, file, pc, payload, idx, results, calls, text, outcome,
          resp, firstResult, environ, gemini, waiting, raced, overlapped, args, ret>>

NoPayload == [job_title |-> <<>>, channels |-> <<>>]
NoOutcome == [exc |-> "unset", val |-> NullVal, msg |-> NoError]
NoWaiting == [request |-> NoPayload, shared |-> {}, running |-> {}]
NoArgs == [name |-> "none"]
NoRet == [name |-> "none"]
NoBody == [json |-> NullVal, results |-> EmptyDict, detail |-> NoError]
NoResp == [endpoint |-> "none", payload |-> NoPayload, status |-> 0, body |-> NoBody]

\* the parameters of one channel config of a request
Params(job_title, cfg) ==
    <<job_title, cfg.channel, cfg.style, cfg.candidate_profile, cfg.language>>

\* the key leaves the language out
CacheKeyNoLanguage(job_title, cfg) ==
    job_title \o <<"_">> \o cfg.channel \o <<"_">> \o cfg.style \o <<"_">>
        \o cfg.candidate_profile

\* cache_key = f"{job_title}_{channel}_{style}_{candidate_profile}_{language}"
CacheKey(job_title, cfg) ==
    job_title \o <<"_">> \o cfg.channel \o <<"_">> \o cfg.style \o <<"_">>
        \o cfg.candidate_profile \o <<"_">> \o cfg.language

\* the cache key of a parameter tuple
KeyOfParams(t) ==
    CacheKey(t[1], [channel |-> t[2], style |-> t[3],
                    candidate_profile |-> t[4], language |-> t[5]])

\* the lookup always misses
CacheHitNever(key) == FALSE

\* if cache_key in CACHE
CacheHit(key) == key \in DOMAIN CACHE

\* build_prompt: the fixed template with the five parameters embedded
build_prompt(job_title, channel, style, candidate_profile, language) ==
    <<"job_post", job_title, channel, style, candidate_profile, language>>

\* build_test_prompt: the fixed template with the two parameters embedded
build_test_prompt(job_title, candidate_profile) ==
    <<"test", job_title, candidate_profile>>

\* str(n) of an int n >= 0
RECURSIVE IntStr(_)
IntStr(n) ==
    IF n < 10 THEN <<(<<"0", "1", "2", "3", "4", "5", "6", "7", "8", "9">>)[n + 1]>>
    ELSE IntStr(n \div 10) \o IntStr(n % 10)

\* "\n".join(items)
RECURSIVE JoinLines(_)
JoinLines(items) ==
    IF items = <<>> THEN <<>>
    ELSE IF Len(items) = 1 THEN items[1]
    ELSE items[1] \o <<"\n">> \o JoinLines(Tail(items))

\* the labels are the indices of enumerate as they are (Q0, A0, ...)
QaItemZeroBased(i, q, a) ==
    <<"Q">> \o IntStr(i) \o <<":", " ">> \o q \o <<"\n">>
        \o <<"A">> \o IntStr(i) \o <<":", " ">> \o a \o <<"\n">>

\* f"Q{i+1}: {q}\nA{i+1}: {a}\n" for the index i of enumerate
QaItem(i, q, a) ==
    <<"Q">> \o IntStr(i + 1) \o <<":", " ">> \o q \o <<"\n">>
        \o <<"A">> \o IntStr(i + 1) \o <<":", " ">> \o a \o <<"\n">>

\* build_scoring_prompt: the fixed template with job_title, candidate_profile
\* and qa_pairs embedded; zip(questions, answers) stops at the shorter list
build_scoring_prompt(job_title, candidate_profile, questions, answers) ==
    <<"scoring", job_title, candidate_profile,
      JoinLines([k \in 1..Min(Len(questions), Len(answers)) |->
                    QaItem(k - 1, questions[k], answers[k])])>>

\* template.render(data=generated_json)
Render(data) == <<"html", data>>

\* HTTPException(status_code=502, detail=f"Gemini error: {str(e)}")
BadGateway(endpoint, p, msg) ==
    [endpoint |-> endpoint, payload |-> p, status |-> 502,
     body |-> [json |-> NullVal, results |-> EmptyDict, detail |-> msg]]

\* an exception no handler catches: the server answers 500
ServerError(endpoint, p) ==
    [endpoint |-> endpoint, payload |-> p, status |-> 500, body |-> NoBody]

Ok(endpoint, p, json, res) ==
    [endpoint |-> endpoint, payload |-> p, status |-> 200,
     body |-> [json |-> json, results |-> res, detail |-> NoError]]

\* what the except clause of the three endpoints makes of generate_json
EndpointResponse(endpoint, p, r) ==
    IF r.exc = "none" THEN Ok(endpoint, p, r.val, EmptyDict)
    ELSE IF r.exc = "GeminiError" THEN BadGateway(endpoint, p, r.msg)
    ELSE ServerError(endpoint, p)


(***************************************************************************)
(* main.py: the cache and its snapshot                                     *)
(***************************************************************************)
NoFile == [exists |-> FALSE, data |-> <<>>]

\* open(CACHE_FILE, "w"): the file exists and is empty
OpenForWrite(f) == [exists |-> TRUE, data |-> <<>>]

\* a flush that writes one entry of the dict and no other
WriteSnapshotOneEntry(cache) ==
    IF DOMAIN cache = {} THEN [exists |-> TRUE, data |-> JsonDump(cache)]
    ELSE LET key == CHOOSE k \in DOMAIN cache : TRUE
         IN  [exists |-> TRUE, data |-> JsonDump([k \in {key} |-> cache[k]])]

\* json.dump(CACHE, f, indent=2) and the close of the with block
WriteSnapshot(cache) == [exists |-> TRUE, data |-> JsonDump(cache)]

\* a load that takes a file json.load rejects for an empty cache
LoadCacheTolerant(f) ==
    IF ~f.exists THEN [ok |-> TRUE, cache |-> EmptyDict]
    ELSE LET r == JsonLoads(f.data)
         IN  IF r.ok THEN [ok |-> TRUE, cache |-> r.val.v]
             ELSE [ok |-> TRUE, cache |-> EmptyDict]

\* module import: CACHE = json.load(f) when cache.json exists, else {};
\* a file json.load cannot parse raises and the import fails
LoadCache(f) ==
    IF ~f.exists THEN [ok |-> TRUE, cache |-> EmptyDict]
    ELSE LET r == JsonLoads(f.data)
         IN  IF r.ok THEN [ok |-> TRUE, cache |-> r.val.v]
             ELSE [ok |-> FALSE, cache |-> EmptyDict]

\* a failed generation empties the dict
CacheAfterGenerateRollback(cache, key, r) ==
    IF r.exc = "none" THEN DictPut(cache, key, r.val) ELSE EmptyDict

\* the assignment is made whether or not generate_json returned
CacheAfterGenerateAlways(cache, key, r) == DictPut(cache, key, r.val)

\* the assignment replaces the dict by one holding the new entry alone
CacheAfterGenerateReplace(cache, key, r) ==
    IF r.exc = "none" THEN [k \in {key} |-> r.val] ELSE cache

\* the try / except / CACHE[cache_key] = generated_json of generate: the
\* assignment is reached only when generate_json returned
CacheAfterGenerate(cache, key, r) ==
    IF r.exc = "none" THEN DictPut(cache, key, r.val) ELSE cache

(***************************************************************************)
(* main.py, module level                                                   *)
(***************************************************************************)
MainDefaultModel == "gemini-2.5-pro"

\* GEMINI_MODEL is read without a default of main.py
MainConfigNoDefault(env) ==
    [api_key |-> EnvGet(env, "GEMINI_API_KEY"),
     model |-> EnvGet(env, "GEMINI_MODEL")]

\* GEMINI_API_KEY = os.environ.get("GEMINI_API_KEY")
\* GEMINI_MODEL = os.environ.get("GEMINI_MODEL", "gemini-2.5-pro")
MainConfig(env) ==
    [api_key |-> EnvGet(env, "GEMINI_API_KEY"),
     model |-> EnvGetDefault(env, "GEMINI_MODEL", MainDefaultModel)]

\* gemini = GeminiClient(api_key=GEMINI_API_KEY, model=GEMINI_MODEL)
MainClient(env) == GeminiClientInit(MainConfig(env).api_key, MainConfig(env).model, env)

\* the import of main.py: the client is constructed (its GeminiError ends
\* the import), then CACHE is loaded; the app serves only after both
ImportMain(env, f) ==
    LET c == MainClient(env)
        l == LoadCache(f)
    IN  IF c.exc # "none" THEN [ok |-> FALSE, gemini |-> NoClient, cache |-> EmptyDict]
        ELSE [ok |-> l.ok, gemini |-> c.client, cache |-> l.cache]

\* the environments the service is started in
EnvKeys == {None, Str(""), Str("key")}
\* (GEMINI_MODEL only names the model the SDK is asked for; no handler
\* depends on it, and ImportMain is checked for every value of it on its own)
EnvModels == {None}
Environs == [GEMINI_API_KEY : EnvKeys, GEMINI_MODEL : EnvModels]

(***************************************************************************)
(* Initial state: main.py has been imported with no cache.json             *)
(***************************************************************************)
Init ==
    /\ environ \in Environs
    /\ proc = IF ImportMain(environ, NoFile).ok THEN "up" ELSE "startfail"
    /\ gemini = ImportMain(environ, NoFile).gemini
    /\ waiting = NoWaiting
    /\ raced = {}
    /\ overlapped = {}
    /\ args = NoArgs
    /\ ret = NoRet
    /\ CACHE = EmptyDict
    /\ file = NoFile
    /\ pc = "idle"
    /\ payload = NoPayload
    /\ idx = 0
    /\ results = EmptyDict
    /\ calls = 0
    /\ text = <<>>
    /\ outcome = NoOutcome
    /\ resp = NoResp
    /\ firstResult = EmptyDict

(***************************************************************************)
(* POST /generate                                                          *)
(***************************************************************************)
CurCfg == payload.channels[idx]
CurKey == CacheKey(payload.job_title, CurCfg)
CurParams == Params(payload.job_title, CurCfg)

\* results = {} ; the for loop starts (an empty channels list returns at once);
\* a request that has been waiting is taken first
GenerateStart(p) ==
    /\ proc = "up" /\ pc = "idle"
    /\ waiting = NoWaiting
    /\ IF p.channels = <<>>
       THEN /\ resp' = Ok("generate", NoPayload, NullVal, EmptyDict)
            /\ UNCHANGED <<pc, payload, idx>>
       ELSE /\ pc' = "loop" /\ payload' = p /\ idx' = 1
            /\ resp' = NoResp
    /\ results' = EmptyDict
    /\ calls' = 0
    /\ raced' = {}
    /\ overlapped' = {}
    /\ UNCHANGED <<proc, CACHE, file, text, outcome, firstResult, environ, gemini,
                   waiting, args, ret>>

\* history: the request p has returned 200; each of its parameter tuples not
\* seen before is recorded with the json its loop iteration had (the entry
\* of its key)
RecordFirst(first, p, cache) ==
    LET new == {Params(p.job_title, p.channels[i]) : i \in 1..Len(p.channels)}
    IN  [t \in DOMAIN first \cup new |->
            IF t \in DOMAIN first THEN first[t] ELSE cache[KeyOfParams(t)]]

\* html = template.render(...); results[cfg.channel] = {...}; next config, or
\* return results after the last one
FinishIteration(json) ==
    LET res == DictPut(results, CurCfg.channel, [json |-> json, html |-> Render(json)])
    IN  IF idx < Len(payload.channels)
        THEN /\ pc' = "loop" /\ idx' = idx + 1 /\ results' = res
             /\ UNCHANGED <<payload, resp, firstResult>>
        ELSE /\ pc' = "idle" /\ idx' = 0 /\ results' = EmptyDict
             /\ payload' = NoPayload
             /\ firstResult' = RecordFirst(firstResult, payload, CACHE)
             /\ resp' = Ok("generate", NoPayload, NullVal, res)

\* a hit that asks the model all the same
GenerateHitRefresh ==
    /\ proc = "up" /\ pc = "loop"
    /\ CacheHit(CurKey)
    /\ FinishIteration(CACHE[CurKey])
    /\ calls' = calls + 1
    /\ UNCHANGED <<proc, CACHE, file, text, outcome, environ, gemini,
                   waiting, raced, overlapped, args, ret>>

\* if cache_key in CACHE: generated_json = CACHE[cache_key]
GenerateHit ==
    /\ proc = "up" /\ pc = "loop"
    /\ CacheHit(CurKey)
    /\ FinishIteration(CACHE[CurKey])
    /\ UNCHANGED <<proc, CACHE, file, calls, text, outcome, environ, gemini,
                   waiting, raced, overlapped, args, ret>>

\* else: build the prompt, call generate_json; on GeminiError answer 502, on
\* any other exception the request dies; otherwise CACHE[cache_key] = ... and
\* save_cache() is entered
GenerateMiss(reply) ==
    /\ proc = "up" /\ pc = "loop"
    /\ ~CacheHit(CurKey)
    /\ LET r == GenerateJson(reply)
       IN  /\ calls' = calls + r.sdk_calls
           /\ CACHE' = CacheAfterGenerate(CACHE, CurKey, r)
           /\ IF r.exc = "none"
              THEN /\ pc' = "save"
                   /\ UNCHANGED <<payload, idx, results, resp>>
              ELSE /\ pc' = "idle" /\ idx' = 0 /\ results' = EmptyDict
                   /\ payload' = NoPayload
                   /\ resp' = EndpointResponse("generate", NoPayload, r)
    /\ UNCHANGED <<proc, file, text, outcome, firstResult, environ, gemini,
                   waiting, raced, overlapped, args, ret>>

\* save_cache: open(CACHE_FILE, "w") truncates cache.json
SaveOpen ==
    /\ proc = "up" /\ pc = "save"
    /\ file' = OpenForWrite(file)
    /\ pc' = "write"
    /\ UNCHANGED <<proc, CACHE, payload, idx, results, calls, text, outcome,
                   resp, firstResult, environ, gemini, waiting, raced, overlapped, args, ret>>

\* save_cache: json.dump writes the whole dict and the file is closed; the
\* loop iteration then finishes
SaveWrite ==
    /\ proc = "up" /\ pc = "write"
    /\ file' = WriteSnapshot(CACHE)
    /\ FinishIteration(CACHE[CurKey])
    /\ UNCHANGED <<proc, CACHE, calls, text, outcome, environ, gemini,
                   waiting, raced, overlapped, args, ret>>

(***************************************************************************)
(* POST /generate-test and POST /score-test                                *)
(***************************************************************************)
GenerateTest(p, reply) ==
    /\ proc = "up" /\ pc = "idle"
    /\ LET r == GenerateJson(reply)
       IN  /\ calls' = r.sdk_calls
           /\ resp' = EndpointResponse("generate-test", p, r)
    /\ UNCHANGED <<proc, CACHE, file, pc, payload, idx, results, text, outcome,
                   firstResult, environ, gemini, waiting, raced, overlapped, args, ret>>

ScoreTest(p, reply) ==
    /\ proc = "up" /\ pc = "idle"
    /\ LET r == GenerateJson(reply)
       IN  /\ calls' = r.sdk_calls
           /\ resp' = EndpointResponse("score-test", p, r)
    /\ UNCHANGED <<proc, CACHE, file, pc, payload, idx, results, text, outcome,
                   firstResult, environ, gemini, waiting, raced, overlapped, args, ret>>

(***************************************************************************)
(* Process crash and restart                                               *)
(***************************************************************************)
\* the process dies: everything in memory is lost; a crash inside json.dump
\* leaves any prefix of the text on disk
Crash ==
    /\ proc = "up"
    /\ proc' = "down"
    /\ IF pc = "write"
       THEN LET dump == JsonDump(CACHE)
            IN  \E n \in 0..Len(dump) :
                    file' = [exists |-> TRUE, data |-> SubSeq(dump, 1, n)]
       ELSE file' = file
    /\ CACHE' = EmptyDict /\ pc' = "idle" /\ payload' = NoPayload /\ idx' = 0
    /\ results' = EmptyDict /\ resp' = NoResp /\ calls' = 0
    /\ gemini' = NoClient /\ waiting' = NoWaiting /\ raced' = {}
    /\ overlapped' = {}
    /\ UNCHANGED <<text, outcome, firstResult, environ, args, ret>>

\* main.py is imported again: the client is constructed, CACHE is loaded
\* from cache.json
Restart ==
    /\ proc = "down"
    /\ LET m == ImportMain(environ, file)
       IN  /\ proc' = IF m.ok THEN "up" ELSE "startfail"
           /\ gemini' = m.gemini
           /\ CACHE' = m.cache
    /\ UNCHANGED <<file, pc, payload, idx, results, calls, text, outcome,
                   resp, firstResult, environ, waiting, raced, overlapped, args, ret>>

Next ==
    \/ \E p \in GenerateRequest : GenerateStart(p)
    \/ GenerateHit
    \/ \E reply \in ClientReplies : GenerateMiss(reply)
    \/ SaveOpen
    \/ SaveWrite
    \/ \E p \in TestRequest, reply \in ClientReplies : GenerateTest(p, reply)
    \/ \E p \in TestAnswersRequest, reply \in ScoreReplies : ScoreTest(p, reply)
    \/ Crash
    \/ Restart

Spec == Init /\ [][Next]_vars


(***************************************************************************)
(* Requests that overlap: /generate is an async function without an await  *)
(* (generate_json is a plain blocking call), so the event loop stays       *)
(* inside the running handler until it returns; a request that reaches the *)
(* server meanwhile waits and is handled afterwards                        *)
(***************************************************************************)
KeysOf(p) == {CacheKey(p.job_title, p.channels[i]) : i \in 1..Len(p.channels)}

\* a /generate request is received while a handler is running; shared is
\* the keys it has in common with the running request that are not cached
\* at this moment
Arrive(p) ==
    /\ proc = "up" /\ pc # "idle"
    /\ waiting = NoWaiting
    /\ p.channels # <<>>
    /\ waiting' = [request |-> p,
                   shared |-> (KeysOf(p) \cap KeysOf(payload)) \ DOMAIN CACHE,
                   running |-> KeysOf(payload)]
    /\ UNCHANGED <<proc, CACHE, file, pc, payload, idx, results, calls, text,
                   outcome, resp, firstResult, environ, gemini, raced, overlapped, args, ret>>

\* the running handler has returned: the event loop starts the handler of
\* the waiting request
StartWaiting ==
    /\ proc = "up" /\ pc = "idle"
    /\ waiting # NoWaiting
    /\ pc' = "loop" /\ payload' = waiting.request /\ idx' = 1
    /\ resp' = NoResp
    /\ results' = EmptyDict
    /\ calls' = 0
    /\ raced' = waiting.shared
    /\ overlapped' = IF resp.status = 200 THEN waiting.running ELSE {}
    /\ waiting' = NoWaiting
    /\ UNCHANGED <<proc, CACHE, file, text, outcome, firstResult, environ, gemini,
                   args, ret>>

\* the requests received meanwhile: one channel config each
OverlapRequest == {p \in GenerateRequest : Len(p.channels) = 1}

NextOverlap ==
    \/ \E p \in GenerateRequest : GenerateStart(p)
    \/ GenerateHit
    \/ \E reply \in ClientReplies : GenerateMiss(reply)
    \/ SaveOpen
    \/ SaveWrite
    \/ \E p \in OverlapRequest : Arrive(p)
    \/ StartWaiting

SpecOverlap == Init /\ [][NextOverlap]_vars


(***************************************************************************)
(* Batches whose configs may share the channel name and differ in style    *)
(***************************************************************************)
BatchStyles == {<<"s">>, <<"t">>}
BatchConfig ==
    [channel : ChannelNames, style : BatchStyles,
     candidate_profile : Profiles, language : Languages]
BatchRequest ==
    [job_title : TestTitles, channels : SeqsOf(BatchConfig, 0, MaxBatch)]

NextBatch ==
    \/ \E p \in BatchRequest : GenerateStart(p)
    \/ GenerateHit
    \/ \E reply \in ClientReplies : GenerateMiss(reply)
    \/ SaveOpen
    \/ SaveWrite

SpecBatch == Init /\ [][NextBatch]_vars


(***************************************************************************)
(* The extraction function on its own: every text up to MaxLen characters  *)
(* over the characters that decide it (objects and strings), and over the  *)
(* characters of lists                                                     *)
(***************************************************************************)
Alphabet == {"{", "}", "\"", ":", "1", " "}
ListAlphabet == {"{", "}", "[", "]", "1", ","}

InitExtract ==
    /\ environ = [GEMINI_API_KEY |-> Str("key"), GEMINI_MODEL |-> None]
    /\ gemini = MainClient(environ).client
    /\ waiting = NoWaiting
    /\ raced = {}
    /\ overlapped = {}
    /\ args = NoArgs
    /\ ret = NoRet
    /\ proc = "up"
    /\ CACHE = EmptyDict
    /\ file = NoFile
    /\ pc = "idle"
    /\ payload = NoPayload
    /\ idx = 0
    /\ results = EmptyDict
    /\ calls = 0
    /\ text \in SeqsOf(Alphabet, 0, MaxLen) \cup SeqsOf(ListAlphabet, 0, MaxLen)
    /\ outcome = NoOutcome
    /\ resp = NoResp
    /\ firstResult = EmptyDict

Extract ==
    /\ outcome = NoOutcome
    /\ outcome' = ExtractJson(text)
    /\ UNCHANGED <<proc, CACHE, file, pc, payload, idx, results, calls, text,
                   resp, firstResult, environ, gemini, waiting, raced, overlapped, args, ret>>

SpecExtract == InitExtract /\ [][Extract]_vars


(***************************************************************************)
(* The extraction function on encoded objects: a JSON object, written the  *)
(* way json.dumps or json.dump(indent=2) writes it, between two texts      *)
(* without braces                                                          *)
(***************************************************************************)
RECURSIVE JsonDumpsVal(_), JsonDumpsMembers(_, _), JsonDumpsElements(_, _)

\* json.dumps(val): items joined by ", ", keys and values by ": "
JsonDumpsVal(val) ==
    IF val.t = "obj" THEN
        IF DOMAIN val.v = {} THEN <<"{", "}">>
        ELSE <<"{">> \o JsonDumpsMembers(val.v, KeyOrder(DOMAIN val.v)) \o <<"}">>
    ELSE IF val.t = "arr" THEN
        IF val.v = <<>> THEN <<"[", "]">>
        ELSE <<"[">> \o JsonDumpsElements(val.v, 1) \o <<"]">>
    ELSE JsonScalar(val)

JsonDumpsMembers(d, order) ==
    LET k == Head(order)
        item == JsonScalar(StrVal(k)) \o <<":", " ">> \o JsonDumpsVal(d[k])
    IN  IF Len(order) = 1 THEN item
        ELSE item \o <<",", " ">> \o JsonDumpsMembers(d, Tail(order))

JsonDumpsElements(a, i) ==
    LET item == JsonDumpsVal(a[i])
    IN  IF i = Len(a) THEN item
        ELSE item \o <<",", " ">> \o JsonDumpsElements(a, i + 1)

Dict1(k, v) == [x \in {k} |-> v]
Dict2(k1, v1, k2, v2) == [x \in {k1, k2} |-> IF x = k1 THEN v1 ELSE v2]

\* objects with braces, quotes, backslashes and line breaks inside strings,
\* nested objects, lists, numbers and literals
RoundTripObjects ==
    { EmptyDict,
      Dict1(<<"k">>, NumVal(<<"1">>)),
      Dict1(<<"k">>, StrVal(<<"}">>)),
      Dict1(<<"{">>, StrVal(<<"{">>)),
      Dict1(<<"a">>, ObjVal(Dict1(<<"b">>, ObjVal(EmptyDict)))),
      Dict1(<<"k">>, ArrVal(<<ObjVal(EmptyDict), StrVal(<<"\"">>), ArrVal(<<>>)>>)),
      Dict1(<<"k">>, StrVal(<<"\\", "\n", "}">>)),
      Dict2(<<"k">>, NullVal, <<"b">>, BoolVal(<<"t", "r", "u", "e">>)),
      Dict2(<<"k">>, NumVal(<<"1", ".", "5">>), <<"j">>, NumVal(<<"1", "0">>)),
      Dict1(<<>>, StrVal(<<>>)) }

\* the characters around the object: none of them a brace
AffixChars == {"a", "\"", "]", " "}

RoundTripArgs ==
    [name : {"roundtrip"}, obj : RoundTripObjects, indent : BOOLEAN,
     prefix : SeqsOf(AffixChars, 0, MaxAffix), suffix : SeqsOf(AffixChars, 0, MaxAffix)]

Encode(a) == IF a.indent THEN JsonDump(a.obj) ELSE JsonDumpsVal(ObjVal(a.obj))

InitRoundTrip ==
    /\ environ = [GEMINI_API_KEY |-> Str("key"), GEMINI_MODEL |-> None]
    /\ gemini = MainClient(environ).client
    /\ waiting = NoWaiting
    /\ raced = {}
    /\ overlapped = {}
    /\ args \in RoundTripArgs
    /\ ret = NoRet
    /\ proc = "up"
    /\ CACHE = EmptyDict
    /\ file = NoFile
    /\ pc = "idle"
    /\ payload = NoPayload
    /\ idx = 0
    /\ results = EmptyDict
    /\ calls = 0
    /\ text = args.prefix \o Encode(args) \o args.suffix
    /\ outcome = NoOutcome
    /\ resp = NoResp
    /\ firstResult = EmptyDict

SpecRoundTrip == InitRoundTrip /\ [][Extract]_vars


(***************************************************************************)
(* The cache key on its own: a parameter tuple, and the tuple with one of  *)
(* its five fields set to another (or the same) value                      *)
(***************************************************************************)
\* field values: empty, a letter, the separator, the separator inside
FieldValues == {<<>>, <<"a">>, <<"_">>, <<"a", "_", "a">>}

KeyArgs ==
    [name : {"key"}, t1 : FieldValues \X FieldValues \X FieldValues \X FieldValues \X FieldValues,
     field : 1..5, value : FieldValues]

\* the second tuple
Changed(a) == [a.t1 EXCEPT ![a.field] = a.value]

InitKey ==
    /\ environ = [GEMINI_API_KEY |-> Str("key"), GEMINI_MODEL |-> None]
    /\ gemini = MainClient(environ).client
    /\ waiting = NoWaiting
    /\ raced = {}
    /\ overlapped = {}
    /\ args \in KeyArgs
    /\ ret = NoRet
    /\ proc = "up"
    /\ CACHE = EmptyDict
    /\ file = NoFile
    /\ pc = "idle"
    /\ payload = NoPayload
    /\ idx = 0
    /\ results = EmptyDict
    /\ calls = 0
    /\ text = <<>>
    /\ outcome = NoOutcome
    /\ resp = NoResp
    /\ firstResult = EmptyDict

\* the key is computed for both tuples
ComputeKeys ==
    /\ args.name = "key" /\ ret = NoRet
    /\ ret' = [name |-> "key", k1 |-> KeyOfParams(args.t1),
               k2 |-> KeyOfParams(Changed(args))]
    /\ UNCHANGED <<proc, CACHE, file, pc, payload, idx, results, calls, text,
                   outcome, resp, firstResult, environ, gemini, waiting, raced,
                   overlapped, args>>

SpecKey == InitKey /\ [][ComputeKeys]_vars


(***************************************************************************)
(* The configuration on its own: the constructor of the client with every  *)
(* combination of explicit arguments and environment (unset, empty, set),  *)
(* and the import of main.py in every such environment                     *)
(***************************************************************************)
ConfigEnvirons ==
    [GEMINI_API_KEY : {None, Str(""), Str("env-key")},
     GEMINI_MODEL : {None, Str(""), Str("env-model")}]

ConfigArgs ==
    [name : {"config"}, api_key : {None, Str(""), Str("arg-key")},
     model : {None, Str(""), Str("arg-model")}]

\* main.py has not been imported yet
InitConfig ==
    /\ environ \in ConfigEnvirons
    /\ gemini = NoClient
    /\ waiting = NoWaiting
    /\ raced = {}
    /\ overlapped = {}
    /\ args \in ConfigArgs
    /\ ret = NoRet
    /\ proc = "down"
    /\ CACHE = EmptyDict
    /\ file = NoFile
    /\ pc = "idle"
    /\ payload = NoPayload
    /\ idx = 0
    /\ results = EmptyDict
    /\ calls = 0
    /\ text = <<>>
    /\ outcome = NoOutcome
    /\ resp = NoResp
    /\ firstResult = EmptyDict

\* GeminiClient(api_key=args.api_key, model=args.model)
Construct ==
    /\ args.name = "config" /\ ret = NoRet
    /\ LET c == GeminiClientInit(args.api_key, args.model, environ)
       IN  ret' = [name |-> "client", exc |-> c.exc, msg |-> c.msg, client |-> c.client]
    /\ UNCHANGED <<proc, CACHE, file, pc, payload, idx, results, calls, text,
                   outcome, resp, firstResult, environ, gemini, waiting, raced,
                   overlapped, args>>

SpecConfig == InitConfig /\ [][Construct \/ Restart]_vars


(***************************************************************************)
(* The scoring prompt on its own: every pair of a questions list and an    *)
(* answers list up to MaxQuestions items                                   *)
(***************************************************************************)
\* the texts of questions and answers: two letters, and a text that reads
\* like a label
PromptTexts == {<<"x">>, <<"y">>, <<"Q", "1", ":">>}

PromptArgs ==
    [name : {"scoring"}, job_title : TestTitles, candidate_profile : Profiles,
     questions : SeqsOf(PromptTexts, 0, MaxQuestions),
     answers : SeqsOf(PromptTexts, 0, MaxQuestions)]

InitPrompt ==
    /\ environ = [GEMINI_API_KEY |-> Str("key"), GEMINI_MODEL |-> None]
    /\ gemini = MainClient(environ).client
    /\ waiting = NoWaiting
    /\ raced = {}
    /\ overlapped = {}
    /\ args \in PromptArgs
    /\ ret = NoRet
    /\ proc = "up"
    /\ CACHE = EmptyDict
    /\ file = NoFile
    /\ pc = "idle"
    /\ payload = NoPayload
    /\ idx = 0
    /\ results = EmptyDict
    /\ calls = 0
    /\ text = <<>>
    /\ outcome = NoOutcome
    /\ resp = NoResp
    /\ firstResult = EmptyDict

\* prompt = build_scoring_prompt(...): string construction only
BuildScoringPrompt ==
    /\ args.name = "scoring" /\ ret = NoRet
    /\ ret' = [name |-> "prompt",
               prompt |-> build_scoring_prompt(args.job_title, args.candidate_profile,
                                               args.questions, args.answers)]
    /\ UNCHANGED <<proc, CACHE, file, pc, payload, idx, results, calls, text,
                   outcome, resp, firstResult, environ, gemini, waiting, raced,
                   overlapped, args>>

SpecPrompt == InitPrompt /\ [][BuildScoringPrompt]_vars


(***************************************************************************)
(* Properties                                                              *)
(***************************************************************************)
\* a step that handles the channel config at idx of the running request
\* (not the crash of the process, not the arrival of another request)
HandlesConfig == proc = "up" /\ pc = "loop" /\ proc' = "up" /\ waiting' = waiting

\* the json the handled config got, once its loop iteration has finished
IterationDone == HandlesConfig /\ pc' \in {"loop", "idle"} /\ resp'.status \in {0, 200}
IterationJson ==
    IF pc' = "loop" THEN results'[CurCfg.channel].json
    ELSE resp'.body.results[CurCfg.channel].json

\* what a restart would load from cache.json
Durable == LoadCache(file)

\* C1: once a /generate request has returned 200 for a channel config with
\* given (job_title, channel, style, candidate_profile, language), every
\* later handling of the same five parameters finishes at once with the
\* identical json and without an SDK call.
C1_Idempotent ==
    [][(HandlesConfig /\ CurParams \in DOMAIN firstResult)
          => /\ IterationDone
             /\ IterationJson = firstResult[CurParams]
             /\ calls' = calls]_vars

\* a /generate request answered 200 wholly from the cache
C1_Witness ==
    /\ pc = "idle" /\ resp.endpoint = "generate" /\ resp.status = 200
    /\ DOMAIN resp.body.results # {}
    /\ calls = 0

\* C2: handling a config whose key is not cached calls the SDK; when the
\* call or the extraction fails the request ends there, the cache and
\* cache.json are unchanged and hold no entry for the key, so the next
\* identical request misses again.
C2_FailureNotCached ==
    [][(HandlesConfig /\ ~CacheHit(CurKey))
          => /\ calls' = calls + 1
             /\ (pc' = "idle" =>
                    /\ resp'.status \in {500, 502}
                    /\ CACHE' = CACHE /\ file' = file
                    /\ CurKey \notin DOMAIN CACHE'
                    /\ CurKey \notin DOMAIN LoadCache(file').cache)]_vars

\* a /generate request that failed after calling the SDK
C2_Witness ==
    /\ pc = "idle" /\ resp.endpoint = "generate" /\ resp.status = 502
    /\ calls >= 1

\* C3: two different parameter tuples that were both answered successfully
\* have different cache keys (no tuple is served another tuple's entry).
C3_KeysSeparate ==
    \A t1, t2 \in DOMAIN firstResult :
        t1 # t2 => KeyOfParams(t1) # KeyOfParams(t2)

\* C4: while the process runs, no step removes a key of CACHE or changes
\* the value stored under it.
C4_AppendOnly ==
    [][(proc = "up" /\ proc' = "up")
          => \A k \in DOMAIN CACHE : k \in DOMAIN CACHE' /\ CACHE'[k] = CACHE[k]]_vars

\* a second entry has been stored next to an older one
C4_Witness == proc = "up" /\ Cardinality(DOMAIN CACHE) >= 2

\* C5: whenever no request is running, every entry of a request that
\* returned 200 is in cache.json and, after a restart, in CACHE.
C5_Durable ==
    (pc = "idle" /\ proc # "down")
        => \A t \in DOMAIN firstResult :
               /\ Durable.ok
               /\ KeyOfParams(t) \in DOMAIN Durable.cache
               /\ Durable.cache[KeyOfParams(t)] = firstResult[t]
               /\ KeyOfParams(t) \in DOMAIN CACHE
               /\ CACHE[KeyOfParams(t)] = firstResult[t]

\* C6: after a crash at any point, cache.json is absent or a complete
\* snapshot json.load accepts.
C6_AtomicFlush == proc # "up" => Durable.ok

\* C7: every request that did not succeed ended with the 502 response
\* carrying the upstream message.
C7_Classified ==
    (resp.endpoint # "none" /\ resp.status # 200)
        => (resp.status = 502 /\ resp.body.detail # NoError)

\* C8: a /score-test request whose questions and answers differ in length
\* is answered with a caller-fault status and makes no SDK call.
C8_Validated ==
    (resp.endpoint = "score-test"
        /\ Len(resp.payload.questions) # Len(resp.payload.answers))
        => (resp.status \in 400..499 /\ calls = 0)

\* C9: a /generate-test or /score-test request that follows a successful
\* one with the same parameters gets the same json and makes no SDK call.
C9_TestsCached ==
    [][(/\ resp.endpoint \in {"generate-test", "score-test"}
        /\ resp.status = 200
        /\ resp'.endpoint = resp.endpoint
        /\ resp'.payload = resp.payload
        /\ resp' # resp)
          => (resp'.body = resp.body /\ calls' = 0)]_vars

\* C10: extraction raises the no-JSON error exactly when the text has no
\* "{" or no "}"; otherwise it parses the characters from the first "{"
\* through the last "}" and returns that value, or raises the parse error
\* when they do not parse (nothing to parse when the last "}" comes first);
\* the two errors differ in their message.
HasChar(s, c) == \E i \in 1..Len(s) : s[i] = c
FirstOpen(s) == CHOOSE i \in 1..Len(s) : s[i] = "{" /\ \A j \in 1..(i - 1) : s[j] # "{"
LastClose(s) == CHOOSE i \in 1..Len(s) : s[i] = "}" /\ \A j \in (i + 1)..Len(s) : s[j] # "}"
BraceSpan(s) == [i \in 1..(LastClose(s) - FirstOpen(s) + 1) |-> s[FirstOpen(s) + i - 1]]
C10_Classification ==
    outcome # NoOutcome =>
        /\ NoJsonMessage # ParseErrorMessage
        /\ (outcome.exc = "GeminiError" /\ outcome.msg.head = NoJsonMessage)
               <=> (~HasChar(text, "{") \/ ~HasChar(text, "}"))
        /\ (HasChar(text, "{") /\ HasChar(text, "}")) =>
               IF JsonLoads(BraceSpan(text)).ok
               THEN outcome.exc = "none" /\ outcome.val = JsonLoads(BraceSpan(text)).val
               ELSE outcome.exc = "GeminiError" /\ outcome.msg.head = ParseErrorMessage

\* the last "}" precedes the first "{": the parse error
C10_Witness ==
    /\ outcome # NoOutcome
    /\ HasChar(text, "{") /\ HasChar(text, "}")
    /\ LastClose(text) < FirstOpen(text)
    /\ outcome.msg.head = ParseErrorMessage

\* C11: for every JSON object and every prefix and suffix without "{" and
\* "}", extraction from prefix + encoding of the object + suffix succeeds
\* and returns exactly that object.
C11_RoundTrip ==
    (args.name = "roundtrip" /\ outcome # NoOutcome)
        => /\ outcome.exc = "none"
           /\ outcome.val = ObjVal(args.obj)
           /\ outcome.msg = NoError

\* an object holding a "}" inside a string was extracted from between a
\* non-empty prefix and a non-empty suffix
C11_Witness ==
    /\ args.name = "roundtrip" /\ outcome # NoOutcome
    /\ args.prefix # <<>> /\ args.suffix # <<>>
    /\ args.obj = Dict1(<<"k">>, StrVal(<<"\\", "\n", "}">>))
    /\ outcome.exc = "none"

\* C12: whatever the text, a successful extraction returns a JSON object
\* (a dict), never a list or a scalar, and a failed one returns no value at
\* all (the cache stores nothing but the value of a successful extraction).
C12_ObjectOnly ==
    outcome # NoOutcome =>
        IF outcome.exc = "none" THEN outcome.val.t = "obj"
        ELSE outcome.val = NullVal

\* a text that is a list around an object: the object was returned
C12_Witness ==
    /\ outcome # NoOutcome /\ outcome.exc = "none"
    /\ Len(text) > 0 /\ text[1] = "[" /\ JsonLoads(text).ok

\* C13: when GEMINI_API_KEY is unset or empty, the construction of the
\* client raises "GEMINI_API_KEY not set" during the import of main.py: the
\* process never serves, no request gets a response and the SDK is never
\* called.
C13_MissingKeyFatal ==
    ~Truthy(environ.GEMINI_API_KEY)
        => /\ MainClient(environ).exc = "GeminiError"
           /\ MainClient(environ).msg = KeyNotSetMessage
           /\ proc = "startfail"
           /\ gemini = NoClient
           /\ pc = "idle" /\ resp = NoResp /\ calls = 0

\* a start with GEMINI_API_KEY set to the empty string has failed
C13_Witness ==
    /\ environ.GEMINI_API_KEY = Str("")
    /\ proc = "startfail"

\* C14: when the generation for a channel config of a /generate request
\* fails, the request ends there with the 502 response carrying the upstream
\* message, and the response holds no per-channel result.
C14_FailFast ==
    [][(HandlesConfig /\ pc' = "idle" /\ resp'.status # 200)
          => /\ resp'.endpoint = "generate"
             /\ resp'.status = 502 /\ resp'.body.detail # NoError
             /\ resp'.body.results = EmptyDict /\ resp'.body.json = NullVal]_vars

\* C15: two /generate requests with the same cache key never run side by
\* side: a request received while another is handled starts after that one
\* has returned.  For a key both share that was not cached when the second
\* was received, the second is a cache hit when the first stored the entry
\* (no SDK call, no write, the entry unchanged and returned), and calls the
\* SDK only when the first ended without storing it.
C15_Serialised ==
    [][(HandlesConfig /\ CurKey \in raced)
          => IF CurKey \in DOMAIN CACHE
             THEN /\ calls' = calls
                  /\ CACHE' = CACHE /\ file' = file
                  /\ IterationDone /\ IterationJson = CACHE[CurKey]
             ELSE calls' = calls + 1]_vars

\* a request received during the handling of another with the same key has
\* been answered from the cache
C15_Witness ==
    /\ raced # {} /\ raced \subseteq DOMAIN CACHE
    /\ pc = "idle" /\ resp.endpoint = "generate" /\ resp.status = 200
    /\ calls = 0

\* C15 as claimed: of two overlapping /generate requests for a key that is
\* not cached, the second calls the SDK as well (and its write replaces the
\* entry of the first).
C15_BothInvoke ==
    [][(HandlesConfig /\ CurKey \in raced) => calls' = calls + 1]_vars

\* a step that handles one /generate-test or /score-test request
HandlesTest ==
    /\ proc = "up" /\ pc = "idle" /\ proc' = "up" /\ pc' = "idle"
    /\ resp'.endpoint \in {"generate-test", "score-test"}

\* C16: the handling of one channel config makes exactly one SDK call when
\* the key is not cached, whether the call succeeds or fails, and none when
\* it is cached; one /generate-test or /score-test request makes exactly
\* one SDK call.  Nothing is retried.
C16_NoRetry ==
    [][/\ HandlesConfig => calls' = calls + (IF CacheHit(CurKey) THEN 0 ELSE 1)
       /\ HandlesTest => calls' = 1]_vars

\* a /generate request of two configs, one cached and one generated, has
\* returned after one SDK call
C16_Witness ==
    /\ pc = "idle" /\ resp.endpoint = "generate" /\ resp.status = 200
    /\ Cardinality(DOMAIN resp.body.results) = 2
    /\ calls = 1

\* C17: the cache key is defined for every parameter tuple; equal tuples
\* have the same key, and two tuples that differ in exactly one field have
\* different keys.
C17_KeyDeterminism ==
    ret.name = "key"
        => /\ ret.k1 \in Seq({"a", "_"}) /\ ret.k2 \in Seq({"a", "_"})
           /\ ret.k1 = KeyOfParams(args.t1)
           /\ (Changed(args) = args.t1) => ret.k2 = ret.k1
           /\ (Changed(args) # args.t1) => ret.k2 # ret.k1

\* two tuples that differ in the language alone, one of them with a
\* separator in it
C17_Witness ==
    /\ ret.name = "key"
    /\ args.field = 5 /\ args.t1[5] = <<"a">> /\ args.value = <<"a", "_", "a">>
    /\ ret.k1 # ret.k2

\* the value of a number without sign and exponent, in tenths (rounded down)
DigitValue(c) ==
    CHOOSE n \in 0..9 : <<"0", "1", "2", "3", "4", "5", "6", "7", "8", "9">>[n + 1] = c
RECURSIVE IntValue(_)
IntValue(d) ==
    IF d = <<>> THEN 0
    ELSE IntValue(SubSeq(d, 1, Len(d) - 1)) * 10 + DigitValue(d[Len(d)])
Tenths(v) ==
    IF Find(v, ".") = -1 THEN IntValue(v) * 10
    ELSE IntValue(Slice(v, 0, Find(v, "."))) * 10 + DigitValue(v[Find(v, ".") + 2])

\* the threshold table: A from 4.5, B from 3.5, C from 2.5, D from 1.5, else F
GradeOf(tenths) ==
    IF tenths >= 45 THEN <<"A">>
    ELSE IF tenths >= 35 THEN <<"B">>
    ELSE IF tenths >= 25 THEN <<"C">>
    ELSE IF tenths >= 15 THEN <<"D">>
    ELSE <<"F">>

\* C18: in every /score-test response with status 200 that carries an
\* overall_score between 1 and 5 and a grade, the grade is the one the
\* threshold table gives that score.
C18_GradeByTable ==
    (/\ resp.endpoint = "score-test" /\ resp.status = 200
     /\ {OverallScoreKey, GradeKey} \subseteq DOMAIN resp.body.json.v
     /\ resp.body.json.v[OverallScoreKey].t = "num"
     /\ Tenths(resp.body.json.v[OverallScoreKey].v) \in 10..50)
        => resp.body.json.v[GradeKey]
               = StrVal(GradeOf(Tenths(resp.body.json.v[OverallScoreKey].v)))

\* C19: every /generate-test response with status 200 is an object whose
\* questions field is a list of exactly 5 strings.
QuestionsKey == <<"q", "u", "e", "s", "t", "i", "o", "n", "s">>
C19_FiveQuestions ==
    (resp.endpoint = "generate-test" /\ resp.status = 200)
        => /\ resp.body.json.t = "obj"
           /\ QuestionsKey \in DOMAIN resp.body.json.v
           /\ resp.body.json.v[QuestionsKey].t = "arr"
           /\ Len(resp.body.json.v[QuestionsKey].v) = 5
           /\ \A i \in 1..Len(resp.body.json.v[QuestionsKey].v) :
                  resp.body.json.v[QuestionsKey].v[i].t = "str"

\* C20: the constructor of the client takes the credential from its
\* argument if that is a non-empty string, else from GEMINI_API_KEY, and
\* fails when neither gives one; it takes the model from its argument if
\* non-empty, else from GEMINI_MODEL if set, else its built-in default
\* "gemini-2.5-flash".  The running service passes the environment's
\* GEMINI_API_KEY and, as the model, GEMINI_MODEL or main.py's own default
\* "gemini-2.5-pro": with GEMINI_MODEL unset the model used is
\* "gemini-2.5-pro", not the built-in default of the client.
C20_Precedence ==
    /\ ret.name = "client" =>
           LET k == IF Truthy(args.api_key) THEN args.api_key
                    ELSE environ.GEMINI_API_KEY
               m == IF Truthy(args.model) THEN args.model
                    ELSE IF environ.GEMINI_MODEL.some THEN environ.GEMINI_MODEL
                    ELSE Str(ClientDefaultModel)
           IN  IF Truthy(k)
               THEN ret.exc = "none" /\ ret.client = [api_key |-> k, model |-> m]
               ELSE ret.exc = "GeminiError" /\ ret.client = NoClient
    /\ proc = "up" =>
           /\ gemini.api_key = environ.GEMINI_API_KEY
           /\ gemini.model = IF environ.GEMINI_MODEL.some THEN environ.GEMINI_MODEL
                              ELSE Str(MainDefaultModel)
    /\ MainDefaultModel # ClientDefaultModel

\* the service runs with GEMINI_MODEL unset, on main.py's default model, and
\* a client constructed without a model got the built-in default
C20_Witness ==
    /\ proc = "up" /\ ~environ.GEMINI_MODEL.some
    /\ gemini.model = Str(MainDefaultModel)
    /\ ret.name = "client" /\ args.model = None /\ ret.exc = "none"
    /\ ret.client.model = Str(ClientDefaultModel)

\* C20 as claimed: when GEMINI_MODEL is not set (and nothing else names a
\* model), the running service uses the built-in default of the client.
C20_ClientDefault ==
    (proc = "up" /\ ~environ.GEMINI_MODEL.some)
        => gemini.model = Str(ClientDefaultModel)

\* the pair of index i as the claim describes it, and the position in the
\* prompt body at which the pair of index i starts when every pair before
\* it is there once, in order, each followed by the line break of the join
ExpectedPair(i) ==
    <<"Q">> \o IntStr(i) \o <<":", " ">> \o args.questions[i] \o <<"\n", "A">>
        \o IntStr(i) \o <<":", " ">> \o args.answers[i] \o <<"\n">>
RECURSIVE PairStart(_)
PairStart(i) == IF i = 1 THEN 1 ELSE PairStart(i - 1) + Len(ExpectedPair(i - 1)) + 1

\* C21: for questions and answers of equal length n, the body of the scoring
\* prompt consists of the pairs "Qi: question i" / "Ai: answer i" for
\* i = 1..n in increasing order, each exactly once and nothing between them
\* but a line break; building the prompt makes no SDK call and leaves the
\* cache and cache.json alone.
C21_Interleaving ==
    (ret.name = "prompt" /\ Len(args.questions) = Len(args.answers))
        => LET n == Len(args.questions)
               body == ret.prompt[4]
           IN  /\ \A i \in 1..n :
                      /\ PairStart(i) + Len(ExpectedPair(i)) - 1 <= Len(body)
                      /\ SubSeq(body, PairStart(i), PairStart(i) + Len(ExpectedPair(i)) - 1)
                             = ExpectedPair(i)
               /\ \A i \in 2..n : body[PairStart(i) - 1] = "\n"
               /\ Len(body) = IF n = 0 THEN 0 ELSE PairStart(n) + Len(ExpectedPair(n)) - 1
               /\ calls = 0 /\ CACHE = EmptyDict /\ file = NoFile

\* a prompt was built from two different questions and two answers
C21_Witness ==
    /\ ret.name = "prompt"
    /\ Len(args.questions) = MaxQuestions /\ Len(args.answers) = MaxQuestions
    /\ args.questions[1] # args.questions[2]

\* the cache keys of the configs before the one being handled
KeysBefore == {CacheKey(payload.job_title, payload.channels[j]) : j \in 1..(idx - 1)}

\* C22: when the generation for the config at position i of a /generate
\* request fails, the handler ends at once: the failed call is the only SDK
\* call of the step, no later config is handled, nothing is written, and
\* the entry of every config before i is in CACHE and in cache.json as it
\* was.
C22_FailFastState ==
    [][(HandlesConfig /\ pc' = "idle" /\ resp'.status # 200)
          => /\ calls' = calls + 1 /\ calls' <= idx
             /\ payload' = NoPayload /\ idx' = 0
             /\ CACHE' = CACHE /\ file' = file
             /\ \A k \in KeysBefore :
                    /\ k \in DOMAIN CACHE'
                    /\ LoadCache(file').ok
                    /\ k \in DOMAIN LoadCache(file').cache
                    /\ LoadCache(file').cache[k] = CACHE'[k]]_vars

\* a request failed at its second config after its first was generated
C22_Witness ==
    /\ pc = "idle" /\ resp.endpoint = "generate" /\ resp.status \in {500, 502}
    /\ calls = 2
    /\ CACHE # EmptyDict

\* C23: the response of a successful /generate request has an entry for
\* every channel config of the request: as many entries as the request has
\* different cache keys, and for each config an entry holding the json
\* stored under that config's key.
C23_EveryConfig ==
    [][(HandlesConfig /\ pc' = "idle" /\ resp'.status = 200)
          => LET res == resp'.body.results
             IN  /\ Cardinality(DOMAIN res) = Cardinality(KeysOf(payload))
                 /\ \A k \in KeysOf(payload) :
                        \E ch \in DOMAIN res : res[ch].json = CACHE'[k]]_vars

\* C24: handling a channel config whose key is in CACHE changes neither
\* CACHE nor cache.json and makes no SDK call; a /generate-test or
\* /score-test request changes neither CACHE nor cache.json.
C24_HitReadOnly ==
    [][/\ (HandlesConfig /\ CacheHit(CurKey))
            => CACHE' = CACHE /\ file' = file /\ calls' = calls
       /\ HandlesTest => CACHE' = CACHE /\ file' = file]_vars

\* the first config of a running request was a hit on an entry that is in
\* cache.json
C24_Witness ==
    /\ pc = "loop" /\ idx = 2 /\ calls = 0
    /\ DOMAIN results # {}
    /\ CACHE # EmptyDict
    /\ Durable.ok /\ Durable.cache = CACHE

C26_StartupLoad ==
    [][/\ (proc = "down" /\ proc' # "down")
            => /\ file' = file
               /\ (proc' = "up" /\ ~file.exists) => CACHE' = EmptyDict
               /\ (proc' = "up" /\ file.exists)
                     => /\ JsonLoads(file.data).ok
                        /\ JsonLoads(file.data).val = ObjVal(CACHE')
                        /\ JsonDump(CACHE') = file.data
               /\ (file.exists /\ ~JsonLoads(file.data).ok) => proc' = "startfail"
       /\ proc = "startfail"
            => /\ proc' = "startfail" /\ resp' = resp /\ calls' = calls
               /\ CACHE' = CACHE /\ file' = file]_vars

\* the key is set, cache.json was cut short inside a flush, and the restart
\* has failed
C26_Witness ==
    /\ proc = "startfail"
    /\ environ.GEMINI_API_KEY = Str("key")
    /\ file.exists /\ file.data # <<>>
    /\ ~JsonLoads(file.data).ok

\* cache.json was complete at the crash and the restart has loaded an entry
C26_Loaded ==
    /\ proc = "up" /\ pc = "idle" /\ resp = NoResp
    /\ file.exists /\ CACHE # EmptyDict

====
